---- MODULE Spec2Model ----
(***************************************************************************)
(* Asynchronous ICMP probe engine of CPing (src/src/engine_linux.cpp and   *)
(* src/src/engine.cpp): the correlation table g_waiters, the listener      *)
(* thread, the probe issuer ping_once_engine and the lifecycle functions   *)
(* init_engine / shutdown_engine, for both platform builds; and, each run  *)
(* on its own, checksum16 (src/src/util.cpp), the local fast path of       *)
(* ping_once_engine, ping_host (src/src/ping_linux.cpp, ping_win.cpp),     *)
(* run_ping (src/src/runner.cpp), and four details of the engine: IP_TTL   *)
(* on the shared socket, the request buffer, the source of a reply, and    *)
(* two lifecycle calls made at the same time.                              *)
(***************************************************************************)
EXTENDS Integers, FiniteSets, Sequences, TLC

\* ---------------------------------------------------------------- bounds
MaxProbes  == 2      \* probe() calls started over a run
MaxBursts  == 1      \* runs of back-to-back self-pings over a run
MaxClock   == 1      \* clock readings run over 0 .. MaxClock

\* ------------------------------------------------------ program constants
SeqBits    == 16     \* std::atomic<uint16_t> g_seq
SeqInit    == 1      \* g_seq{1}
NoSock     == -1     \* g_sock = -1 / INVALID_SOCKET
SeqMod     == 2 ^ SeqBits

Threads    == {1, 2}   \* caller threads issuing probes
Platforms  == {"linux", "win"}
Foreign    == -1     \* a frame whose (id, seq) is not one of this process's keys
RttUnset   == -1     \* long rtt_ms = -1 in a default PingProbeResult
RttPlaceholder == 0  \* probe.rtt_ms = 0 written by the listener
SockFd     == 3      \* any valid descriptor returned by socket()
Free       == 0      \* g_mtx is not held
ListenerId == 3      \* the listener thread, as a holder of g_mtx
StopId     == 4      \* the caller of shutdown_engine, as a holder of g_mtx

VARIABLES
    platform,    \* which build runs: engine_linux.cpp or engine.cpp
    g_running,   \* std::atomic<bool> g_running
    g_sock,      \* g_sock: NoSock or an open descriptor
    g_cap,       \* g_cap.h != nullptr (Windows capture handle)
    rx_closed,   \* shutdown(SHUT_RD) / pcap_breakloop has been signalled
    lis,         \* listener thread: "none", "top", "recv", "exited"
    g_waiters,   \* key -> owning probe thread (whose promise the entry holds)
    g_mtx,       \* std::mutex g_mtx: Free, or who holds it
    g_seq,       \* 16-bit sequence counter
    lpc,         \* lifecycle caller position
    pc,          \* probe thread position
    key,         \* Key.seq of the thread's current (or last) probe
    fut,         \* shared state of the thread's promise/future pair
    nset,        \* set_value calls made on the thread's promise
    how,         \* who took the thread's entry out of the table
    ret,         \* what the thread's last ping_once_engine call produced
    late,        \* a reply for the thread's key came after its entry had gone
    issued,      \* probe() calls started
    bursts,      \* self-ping runs made
    clock,       \* high_resolution_clock::now(), in milliseconds
    t_send,      \* the thread's t_send
    rtt_ms,      \* rtt_ms of the thread's last PingProbeResult
    packet,      \* the bytes of an ICMP message under construction
    cpc,         \* where the construction of packet stands
    fast,        \* a call on the local-host fast path of ping_once_engine
    host,        \* a call of ping_host: its options, locals and PingResult
    run,         \* a call of run_ping: its options, locals and return value
    wire,        \* IP_TTL of the engine socket and the TTL each request left with
    req,         \* the request buffer ping_once_engine allocates and fills
    rx,          \* one waiting probe and the Echo Reply the listener reads
    life         \* two threads inside init_engine / shutdown_engine at once

\* The engine and its callers.
coreVars == << platform, g_running, g_sock, g_cap, rx_closed, lis, g_waiters,
               g_mtx, g_seq, lpc, pc, key, fut, nset, how, ret, late, issued, bursts,
               clock, t_send, rtt_ms >>

\* The functions around the engine, each run on its own.
sideVars == << wire, req, rx, life >>

auxVars == << packet, cpc, fast, host, run, sideVars >>

\* None of the engine's details below is being looked at.
SideIdle ==
    /\ wire = [pc |-> "none"]
    /\ req = [pc |-> "none"]
    /\ rx = [pc |-> "none"]
    /\ life = [pc |-> "none"]

vars == << coreVars, auxVars >>

\* ------------------------------------------------------------- outcomes
\* PingProbeResult as returned to the caller (success, error_msg), or the
\* exception that left ping_once_engine.
Val(s, e) == [kind |-> "value", success |-> s, error_msg |-> e]
Thrown    == [kind |-> "throw", success |-> FALSE, error_msg |-> "std::future_error"]
NoRet     == [kind |-> "none",  success |-> FALSE, error_msg |-> ""]

SendFailMsg == IF platform = "linux" THEN "sendto() failed" ELSE "sendto failed"

\* Outcomes of the local-address fast path, with whether g_seq was consumed.
LocalOutcomes ==
    IF platform = "linux"
    THEN { << Val(FALSE, "socket() failed"),  FALSE >>,
           << Val(FALSE, "connect() failed"), FALSE >>,
           << Val(FALSE, "send() failed"),    TRUE  >>,
           << Val(FALSE, "Timeout"),          TRUE  >>,
           << Val(FALSE, "recvmsg() failed"), TRUE  >>,
           << Val(TRUE,  ""),                 TRUE  >> }
    ELSE { << Val(FALSE, "Local ICMP failed"), FALSE >>,
           << Val(TRUE,  ""),                  FALSE >> }

\* ------------------------------------------------------ table primitives
NextSeq(s) == (s + 1) % SeqMod

EmptyTable == [x \in {} |-> 0]

\* g_waiters.erase(k)
TableErase(tbl, k) == [x \in (DOMAIN tbl) \ {k} |-> tbl[x]]

\* g_waiters.emplace(k, std::move(pr)): no effect on the table when k exists
TableEmplace(tbl, k, t) ==
    IF k \in DOMAIN tbl THEN tbl
    ELSE [x \in (DOMAIN tbl) \cup {k} |-> IF x = k THEN t ELSE tbl[x]]

\* ~promise() on a promise whose shared state holds no value: the state is
\* made ready with broken_promise.
Abandon(f, owners) ==
    [t \in Threads |-> IF t \in owners /\ f[t] = "empty" THEN "broken" ELSE f[t]]

\* promise::set_value(v): stores v when the state is empty, throws
\* promise_already_satisfied (swallowed by the callers' catch) otherwise.
SetValue(f, owners, v) ==
    [t \in Threads |-> IF t \in owners /\ f[t] = "empty" THEN v ELSE f[t]]

CountSet(n, owners) ==
    [t \in Threads |-> IF t \in owners THEN n[t] + 1 ELSE n[t]]

Owners(tbl, ks) == { tbl[k] : k \in ks \cap DOMAIN tbl }

Removed(h, owners, who) ==
    [t \in Threads |-> IF t \in owners THEN who ELSE h[t]]

\* --------------------------------------------------------------- Init
EngineInit ==
    /\ platform \in Platforms
    /\ g_running = FALSE
    /\ g_sock = NoSock
    /\ g_cap = FALSE
    /\ rx_closed = FALSE
    /\ lis = "none"
    /\ g_waiters = EmptyTable
    /\ g_mtx = Free
    /\ g_seq = SeqInit
    /\ lpc = "idle"
    /\ pc = [t \in Threads |-> "idle"]
    /\ key = [t \in Threads |-> 0]
    /\ fut = [t \in Threads |-> "none"]
    /\ nset = [t \in Threads |-> 0]
    /\ how = [t \in Threads |-> "none"]
    /\ ret = [t \in Threads |-> NoRet]
    /\ late = [t \in Threads |-> FALSE]
    /\ issued = 0
    /\ bursts = 0
    /\ clock = 0
    /\ t_send = [t \in Threads |-> 0]
    /\ rtt_ms = [t \in Threads |-> RttUnset]

\* No message is being built.
ChecksumIdle == packet = << >> /\ cpc = "none"

\* No call is on the fast path.
FastIdle == fast = [pc |-> "none"]

\* PingResult result{}; bool any_ok = false; for a call with ip, opt.retries
\* and opt.stop_on_first_success.
HostCall(p, ip, retries, stop) ==
    [pc |-> p, ip |-> ip, retries |-> retries, stop_on_first_success |-> stop,
     i |-> 0, any_ok |-> FALSE, reachable |-> FALSE, rtt_ms |-> RttUnset,
     ttl |-> -1, probes |-> << >>, sent |-> 0]

\* No call of ping_host is made.
HostIdle == host = [pc |-> "none"]

\* run_ping(opt) with opt.continuous, opt.count and opt.ping.retries, at
\* its first statement; keep_running starts out true.
RunCall(p, continuous, count, retries) ==
    [pc |-> p, continuous |-> continuous, count |-> count, retries |-> retries,
     keep_running |-> TRUE, sent |-> 0, received |-> 0, i |-> 0,
     reachable |-> FALSE, rtt_ms |-> RttUnset, probes |-> << >>,
     attempts |-> << >>, rc |-> -1]

\* No call of run_ping is made.
RunIdle == run = [pc |-> "none"]

AuxInit == ChecksumIdle /\ FastIdle /\ HostIdle /\ RunIdle /\ SideIdle

Init == EngineInit /\ AuxInit

\* ------------------------------------------------- ping_once_engine
\* Variant of LockGuard whose holder keeps g_mtx past the end of the block.
LockGuard_NoRelease(who) ==
    /\ g_mtx = Free
    /\ g_mtx' = who

\* { std::lock_guard<std::mutex> lk(g_mtx); ... }: the block runs with the
\* mutex taken from the free state and ends with it released.
LockGuard(who) ==
    /\ g_mtx = Free
    /\ g_mtx' = Free

lifeVars  == << g_running, g_sock, g_cap, rx_closed, lis, lpc >>
timeVars  == << clock, t_send, rtt_ms >>

\* Destinations by how ping_once_engine treats them: no IPv4 address, an
\* address of this host, any other address.
Dests == {"invalid", "local", "remote"}

\* Variant of ProbeStart that does not look at what inet_pton returned: an
\* address that is no IPv4 address goes on like any other remote address.
ProbeStart_NoValidate(t, dest) ==
    /\ pc[t] = "idle"
    /\ issued < MaxProbes
    /\ issued' = issued + 1
    /\ fut' = [fut EXCEPT ![t] = "none"]
    /\ nset' = [nset EXCEPT ![t] = 0]
    /\ how' = [how EXCEPT ![t] = "none"]
    /\ late' = [late EXCEPT ![t] = FALSE]
    /\ CASE dest = "local" ->
              \E o \in LocalOutcomes :
                 /\ ret' = [ret EXCEPT ![t] = o[1]]
                 /\ g_seq' = IF o[2] THEN NextSeq(g_seq) ELSE g_seq
                 /\ UNCHANGED << pc, key >>
         [] dest # "local" /\ g_sock = NoSock ->
              /\ ret' = [ret EXCEPT ![t] = Val(FALSE, "Engine socket not available")]
              /\ UNCHANGED << pc, key, g_seq >>
         [] dest # "local" /\ g_sock # NoSock ->
              /\ key' = [key EXCEPT ![t] = g_seq]
              /\ g_seq' = NextSeq(g_seq)
              /\ pc' = [pc EXCEPT ![t] = "reg"]
              /\ ret' = [ret EXCEPT ![t] = NoRet]
    /\ rtt_ms' = [rtt_ms EXCEPT ![t] = IF ret'[t].success THEN 0 ELSE RttUnset]
    /\ UNCHANGED << auxVars, g_mtx, platform, lifeVars, g_waiters, bursts, clock, t_send >>

\* Entry of ping_once_engine up to the key allocation: address validation,
\* local fast path, socket check, g_seq.fetch_add(1).
ProbeStart(t, dest) ==
    /\ pc[t] = "idle"
    /\ issued < MaxProbes
    /\ issued' = issued + 1
    /\ fut' = [fut EXCEPT ![t] = "none"]
    /\ nset' = [nset EXCEPT ![t] = 0]
    /\ how' = [how EXCEPT ![t] = "none"]
    /\ late' = [late EXCEPT ![t] = FALSE]
    /\ CASE dest = "invalid" ->
              /\ ret' = [ret EXCEPT ![t] = Val(FALSE, "Invalid IP")]
              /\ UNCHANGED << pc, key, g_seq >>
         [] dest = "local" ->
              \E o \in LocalOutcomes :
                 /\ ret' = [ret EXCEPT ![t] = o[1]]
                 /\ g_seq' = IF o[2] THEN NextSeq(g_seq) ELSE g_seq
                 /\ UNCHANGED << pc, key >>
         [] dest = "remote" /\ g_sock = NoSock ->
              /\ ret' = [ret EXCEPT ![t] = Val(FALSE, "Engine socket not available")]
              /\ UNCHANGED << pc, key, g_seq >>
         [] dest = "remote" /\ g_sock # NoSock ->
              /\ key' = [key EXCEPT ![t] = g_seq]
              /\ g_seq' = NextSeq(g_seq)
              /\ pc' = [pc EXCEPT ![t] = "reg"]
              /\ ret' = [ret EXCEPT ![t] = NoRet]
    \* PingProbeResult probe{}; the fast path measures within the call
    /\ rtt_ms' = [rtt_ms EXCEPT ![t] = IF ret'[t].success THEN 0 ELSE RttUnset]
    /\ UNCHANGED << auxVars, g_mtx, platform, lifeVars, g_waiters, bursts, clock, t_send >>

\* promise pr; fut = pr.get_future(); lock; g_waiters.emplace(k, move(pr)).
\* When k is already present nothing is inserted; whether pr was moved into
\* a node that is destroyed at once (nodeFirst) is left to the library.
ProbeRegister(t, nodeFirst) ==
    /\ pc[t] = "reg"
    /\ LockGuard(t)
    /\ g_waiters' = TableEmplace(g_waiters, key[t], t)
    /\ fut' = [fut EXCEPT ![t] =
                 IF key[t] \in DOMAIN g_waiters /\ nodeFirst
                 THEN "broken" ELSE "empty"]
    /\ pc' = [pc EXCEPT ![t] = "send"]
    /\ UNCHANGED << auxVars, platform, lifeVars, g_seq, key, nset, how, ret, late, issued,
                    bursts, timeVars >>

\* lock; g_waiters.erase(k): the entry under k goes, whoever owns it, and
\* its promise is destroyed.
EraseOwn(t) ==
    /\ LockGuard(t)
    /\ g_waiters' = TableErase(g_waiters, key[t])
    /\ fut' = Abandon(fut, Owners(g_waiters, {key[t]}))
    /\ how' = Removed(how, Owners(g_waiters, {key[t]}), "erase")

\* t_send = now(); sendto(g_sock, ...); on failure erase(k) and report.
ProbeSend(t, ok) ==
    /\ pc[t] = "send"
    /\ ok => g_sock # NoSock
    /\ t_send' = [t_send EXCEPT ![t] = clock]
    /\ IF ok
       THEN /\ pc' = [pc EXCEPT ![t] = "wait"]
            /\ UNCHANGED << g_waiters, g_mtx, fut, how, ret >>
       ELSE /\ EraseOwn(t)
            /\ ret' = [ret EXCEPT ![t] = Val(FALSE, SendFailMsg)]
            /\ pc' = [pc EXCEPT ![t] = "idle"]
    /\ UNCHANGED << auxVars, platform, lifeVars, g_seq, key, nset, late, issued, bursts,
                    clock, rtt_ms >>

\* fut.get() on a ready state: the stored value, or the stored exception
\* rethrown out of ping_once_engine.
FutureGet(f) ==
    CASE f = "reply"  -> Val(TRUE, "")
      [] f = "drain"  -> Val(FALSE, "")
      [] f = "broken" -> Thrown
      [] OTHER        -> NoRet

\* rtt_ms of the PingProbeResult stored in the shared state.
FutureRtt(f) == IF f = "reply" THEN RttPlaceholder ELSE RttUnset

\* Variant of ProbeReady that returns the stored result as it is.
ProbeReady_StoredRtt(t) ==
    /\ pc[t] = "wait"
    /\ fut[t] \in {"reply", "drain", "broken"}
    /\ ret' = [ret EXCEPT ![t] = FutureGet(fut[t])]
    /\ rtt_ms' = [rtt_ms EXCEPT ![t] = FutureRtt(fut[t])]
    /\ pc' = [pc EXCEPT ![t] = "idle"]
    /\ UNCHANGED << auxVars, g_mtx, platform, lifeVars, g_waiters, g_seq, key, fut, nset, how,
                    late, issued, bursts, clock, t_send >>

\* fut.wait_for(timeout) == ready; probe = fut.get(); t_recv = now();
\* probe.rtt_ms = t_recv - t_send; return probe.
ProbeReady(t) ==
    /\ pc[t] = "wait"
    /\ fut[t] \in {"reply", "drain", "broken"}
    /\ ret' = [ret EXCEPT ![t] = FutureGet(fut[t])]
    /\ rtt_ms' = [rtt_ms EXCEPT ![t] =
                    IF fut[t] = "broken" THEN rtt_ms[t] ELSE clock - t_send[t]]
    /\ pc' = [pc EXCEPT ![t] = "idle"]
    /\ UNCHANGED << auxVars, g_mtx, platform, lifeVars, g_waiters, g_seq, key, fut, nset, how,
                    late, issued, bursts, clock, t_send >>

\* fut.wait_for(timeout) == timeout: the deadline passed with the state empty.
ProbeDeadline(t) ==
    /\ pc[t] = "wait"
    /\ fut[t] = "empty"
    /\ pc' = [pc EXCEPT ![t] = "timedout"]
    /\ UNCHANGED << auxVars, g_mtx, platform, lifeVars, g_waiters, g_seq, key, fut, nset, how,
                    ret, late, issued, bursts, timeVars >>

\* Variant of ProbeTimeout that returns without the erase.
ProbeTimeout_NoErase(t) ==
    /\ pc[t] = "timedout"
    /\ ret' = [ret EXCEPT ![t] = Val(FALSE, "Timeout")]
    /\ pc' = [pc EXCEPT ![t] = "idle"]
    /\ UNCHANGED << auxVars, g_mtx, platform, lifeVars, g_waiters, fut, how, g_seq, key, nset,
                    late, issued, bursts, timeVars >>

\* Timeout cleanup: lock; erase(k); error_msg = "Timeout"; return.
ProbeTimeout(t) ==
    /\ pc[t] = "timedout"
    /\ EraseOwn(t)
    /\ ret' = [ret EXCEPT ![t] = Val(FALSE, "Timeout")]
    /\ pc' = [pc EXCEPT ![t] = "idle"]
    /\ UNCHANGED << auxVars, platform, lifeVars, g_seq, key, nset, late, issued, bursts,
                    timeVars >>

\* A caller looping over SeqMod - 1 self-pings on the Linux build: each call
\* takes the fast path and consumes one sequence number, nothing else.
LocalPingLoop ==
    /\ platform = "linux"
    /\ bursts < MaxBursts
    /\ bursts' = bursts + 1
    /\ g_seq' = (g_seq + (SeqMod - 1)) % SeqMod
    /\ UNCHANGED << auxVars, g_mtx, platform, lifeVars, g_waiters, pc, key, fut, nset, how,
                    ret, late, issued, timeVars >>

probeVars == << pc, key, ret, issued, bursts, g_seq, timeVars >>
lisVars   == << probeVars, late >>

\* ---------------------------------------------------------- listener_loop
\* while (g_running.load()): loop test.
ListenerTop ==
    /\ lis = "top"
    /\ lis' = IF g_running THEN "recv" ELSE "exited"
    /\ UNCHANGED << auxVars, g_mtx, platform, g_running, g_sock, g_cap, rx_closed, lpc,
                    g_waiters, fut, nset, how, lisVars >>

\* Keys an inbound Echo Reply may carry: a key now in the table, the key of
\* a probe that is or was in flight (late or duplicate reply), or a key of
\* other traffic.
FrameKeys == (DOMAIN g_waiters) \cup { key[t] : t \in Threads } \cup {Foreign}

\* Variant of Resolve that matches replies on the identifier alone: every
\* entry of this process is taken for a reply that carries its identifier.
Resolve_IdOnly(k) ==
    /\ LockGuard(ListenerId)
    /\ g_waiters' = IF k = Foreign THEN g_waiters ELSE EmptyTable
    /\ fut' = IF k = Foreign THEN fut
              ELSE SetValue(fut, Owners(g_waiters, DOMAIN g_waiters), "reply")
    /\ nset' = IF k = Foreign THEN nset
               ELSE CountSet(nset, Owners(g_waiters, DOMAIN g_waiters))
    /\ how' = IF k = Foreign THEN how
              ELSE Removed(how, Owners(g_waiters, DOMAIN g_waiters), "listener")

\* Variant of Resolve that leaves the entry in the table.
Resolve_NoErase(k) ==
    /\ LockGuard(ListenerId)
    /\ g_waiters' = g_waiters
    /\ fut' = SetValue(fut, Owners(g_waiters, {k}), "reply")
    /\ nset' = CountSet(nset, Owners(g_waiters, {k}))
    /\ how' = Removed(how, Owners(g_waiters, {k}), "listener")

\* lock; it = find(k); if found: tmp = move(it->second); erase(it);
\* tmp.set_value(probe with success = true).
Resolve(k) ==
    /\ LockGuard(ListenerId)
    /\ g_waiters' = TableErase(g_waiters, k)
    /\ fut' = SetValue(fut, Owners(g_waiters, {k}), "reply")
    /\ nset' = CountSet(nset, Owners(g_waiters, {k}))
    /\ how' = Removed(how, Owners(g_waiters, {k}), "listener")

\* History: the lookup for k found nothing and k is the key of a probe whose
\* entry was taken out before.
LateReply(l, k) ==
    [t \in Threads |-> l[t] \/ (key[t] = k /\ k \notin DOMAIN g_waiters
                                          /\ how[t] # "none")]

\* recvmsg / pcap_next_ex returned an Echo Reply carrying key k.
ListenerFrame(k) ==
    /\ lis = "recv"
    /\ Resolve(k)
    /\ late' = LateReply(late, k)
    /\ lis' = "top"
    /\ UNCHANGED << auxVars, platform, g_running, g_sock, g_cap, rx_closed, lpc,
                    probeVars >>

\* The receive call returned without a usable frame (EINTR, read timeout,
\* short or non-reply frame): continue.
ListenerIdle ==
    /\ lis = "recv"
    /\ lis' = "top"
    /\ UNCHANGED << auxVars, g_mtx, platform, g_running, g_sock, g_cap, rx_closed, lpc,
                    g_waiters, fut, nset, how, lisVars >>

\* The receive call reported shutdown (n == 0, r == -2) or a fatal error
\* (n < 0, r == -1): break.
ListenerBreak(fatal) ==
    /\ lis = "recv"
    /\ fatal \/ rx_closed
    /\ lis' = "exited"
    /\ UNCHANGED << auxVars, g_mtx, platform, g_running, g_sock, g_cap, rx_closed, lpc,
                    g_waiters, fut, nset, how, lisVars >>

\* ------------------------------------------------------------ init_engine
tableVars == << g_waiters, fut, nset, how >>

\* What acquiring the transport can come to.  Linux: socket().  Windows:
\* device lookup, open_capture, apply_icmp_filter, ensure_wsa, socket().
\* Each is << succeeded, capture handle left in g_cap >>.
OpenOutcomes ==
    IF platform = "linux"
    THEN { << FALSE, FALSE >>, << TRUE, FALSE >> }
    ELSE { << FALSE, FALSE >>, << FALSE, TRUE >>, << TRUE, TRUE >> }

\* The if_name argument of init_engine: empty, the name of an interface of
\* the host, or a name no interface of the host has.
Hints == {"empty", "known", "unknown"}

\* The calls of init_engine that differ in what they do: on a running engine
\* every call returns at the first test, whatever its argument, so one call
\* (for which the transport could be acquired) stands for all.
InitInputs ==
    IF g_running THEN {"empty"} \X {o \in OpenOutcomes : o[1]}
    ELSE Hints \X OpenOutcomes

\* Variant of InitOpen without the test of g_running: every call acquires
\* the transport anew.
InitOpen_NoRunningTest(h, o) ==
    /\ lpc = "idle"
    /\ h \in Hints
    /\ IF o[1]
       THEN /\ g_sock' = SockFd
            /\ g_cap' = o[2]
            /\ rx_closed' = FALSE
            /\ g_running' = TRUE
            /\ lpc' = "spawn"
       ELSE /\ g_cap' = (g_cap \/ o[2])
            /\ UNCHANGED << g_running, g_sock, rx_closed, lpc >>
    /\ UNCHANGED << auxVars, g_mtx, platform, lis, tableVars, lisVars >>

\* init_engine(if_name) up to g_running = true.  The hint does not decide
\* the outcome: Linux ignores what setsockopt(SO_BINDTODEVICE) returns,
\* Windows falls back to the route-based choice when no device matches.
InitOpen(h, o) ==
    /\ lpc = "idle"
    /\ h \in Hints
    /\ IF g_running
       THEN UNCHANGED << g_running, g_sock, g_cap, rx_closed, lpc >>
       ELSE IF o[1]
            THEN /\ g_sock' = SockFd
                 /\ g_cap' = o[2]
                 /\ rx_closed' = FALSE
                 /\ g_running' = TRUE
                 /\ lpc' = "spawn"
            ELSE /\ g_cap' = (g_cap \/ o[2])
                 /\ UNCHANGED << g_running, g_sock, rx_closed, lpc >>
    /\ UNCHANGED << auxVars, g_mtx, platform, lis, tableVars, lisVars >>

\* g_listener = std::thread(listener_loop); the Linux build rolls back when
\* the thread cannot be created, the Windows build lets the error escape.
InitSpawn(ok) ==
    /\ lpc = "spawn"
    /\ lpc' = "idle"
    /\ IF ok
       THEN /\ lis' = "top"
            /\ UNCHANGED << g_running, g_sock >>
       ELSE IF platform = "linux"
            THEN /\ g_running' = FALSE
                 /\ g_sock' = NoSock
                 /\ UNCHANGED lis
            ELSE UNCHANGED << g_running, g_sock, lis >>
    /\ UNCHANGED << auxVars, g_mtx, platform, g_cap, rx_closed, tableVars, lisVars >>

\* -------------------------------------------------------- shutdown_engine
\* Variant of ShutdownSignal without the test for an open socket or capture
\* handle before the wake-up call.
ShutdownSignal_Unguarded ==
    /\ lpc = "idle"
    /\ g_running' = FALSE
    /\ rx_closed' = TRUE
    /\ lpc' = "join"
    /\ UNCHANGED << auxVars, g_mtx, platform, g_sock, g_cap, lis, tableVars, lisVars >>

\* g_running = false; wake the listener (shutdown(SHUT_RD) / pcap_breakloop).
ShutdownSignal ==
    /\ lpc = "idle"
    /\ g_running' = FALSE
    /\ rx_closed' = IF platform = "linux"
                    THEN (rx_closed \/ g_sock # NoSock)
                    ELSE (rx_closed \/ g_cap)
    /\ lpc' = "join"
    /\ UNCHANGED << auxVars, g_mtx, platform, g_sock, g_cap, lis, tableVars, lisVars >>

\* Variant of ShutdownJoinClose that does not wait for the listener thread
\* before it closes the transport and goes on to the drain.
ShutdownJoinClose_NoJoin ==
    /\ lpc = "join"
    /\ g_cap' = FALSE
    /\ g_sock' = NoSock
    /\ lpc' = "drain"
    /\ UNCHANGED << auxVars, g_mtx, platform, g_running, rx_closed, lis, tableVars, lisVars >>

\* if joinable: join; then close the capture and the socket.
ShutdownJoinClose ==
    /\ lpc = "join"
    /\ lis \in {"none", "exited"}
    /\ lis' = "none"
    /\ g_cap' = FALSE
    /\ g_sock' = NoSock
    /\ lpc' = "drain"
    /\ UNCHANGED << auxVars, g_mtx, platform, g_running, rx_closed, tableVars, lisVars >>

\* What the drain loop leaves in the shared state of every promise still in
\* the table.  Linux: set_value(PingProbeResult{}).  Windows: get_future()
\* on a promise whose future was already taken throws into the catch, no
\* value is set, and clear() destroys the promises.
DrainFutOn(p, f, owners) ==
    IF p = "linux"
    THEN SetValue(f, owners, "drain")
    ELSE Abandon(f, owners)

\* The drain of the build that runs.
DrainFut(f, owners) == DrainFutOn(platform, f, owners)

DrainCount(n, owners) ==
    IF platform = "linux" THEN CountSet(n, owners) ELSE n

\* lock; for every entry: resolve; g_waiters.clear().
ShutdownDrain ==
    /\ lpc = "drain"
    /\ LockGuard(StopId)
    /\ fut' = DrainFut(fut, Owners(g_waiters, DOMAIN g_waiters))
    /\ nset' = DrainCount(nset, Owners(g_waiters, DOMAIN g_waiters))
    /\ how' = Removed(how, Owners(g_waiters, DOMAIN g_waiters), "drain")
    /\ g_waiters' = EmptyTable
    /\ lpc' = "idle"
    /\ UNCHANGED << auxVars, platform, g_running, g_sock, g_cap, rx_closed, lis, lisVars >>

\* ------------------------------------------------------------------ Next
Next ==
    \/ \E t \in Threads, d \in Dests : ProbeStart(t, d)
    \/ \E t \in Threads, b \in BOOLEAN : ProbeRegister(t, b)
    \/ \E t \in Threads, b \in BOOLEAN : ProbeSend(t, b)
    \/ \E t \in Threads : ProbeReady(t)
    \/ \E t \in Threads : ProbeDeadline(t)
    \/ \E t \in Threads : ProbeTimeout(t)
    \/ LocalPingLoop
    \/ ListenerTop
    \/ \E k \in FrameKeys : ListenerFrame(k)
    \/ ListenerIdle
    \/ \E b \in BOOLEAN : ListenerBreak(b)
    \/ \E i \in InitInputs : InitOpen(i[1], i[2])
    \/ \E b \in BOOLEAN : InitSpawn(b)
    \/ ShutdownSignal
    \/ ShutdownJoinClose
    \/ ShutdownDrain

Spec == Init /\ [][Next]_vars

\* ------------------------------------------------------------ timed runs
\* The clock advances by a millisecond.
Tick ==
    /\ clock < MaxClock
    /\ clock' = clock + 1
    /\ UNCHANGED << auxVars, g_mtx, platform, lifeVars, tableVars, pc, key, ret, late, issued,
                    bursts, g_seq, t_send, rtt_ms >>

Solo == {1}     \* the caller of the timed runs

\* One caller probing the engine while the clock runs.
NextTimed ==
    \/ Tick
    \/ \E t \in Solo, d \in Dests : ProbeStart(t, d)
    \/ \E t \in Solo, b \in BOOLEAN : ProbeRegister(t, b)
    \/ \E t \in Solo, b \in BOOLEAN : ProbeSend(t, b)
    \/ \E t \in Solo : ProbeReady(t)
    \/ \E t \in Solo : ProbeDeadline(t)
    \/ \E t \in Solo : ProbeTimeout(t)
    \/ ListenerTop
    \/ \E k \in FrameKeys : ListenerFrame(k)
    \/ ListenerIdle
    \/ \E b \in BOOLEAN : ListenerBreak(b)
    \/ \E i \in InitInputs : InitOpen(i[1], i[2])
    \/ \E b \in BOOLEAN : InitSpawn(b)
    \/ ShutdownSignal
    \/ ShutdownJoinClose
    \/ ShutdownDrain

SpecTimed == Init /\ [][NextTimed]_vars

\* ------------------------------------------------------------ checksum16
MaxLen   == 6        \* longest message built
CsumOff  == 2        \* offsetof(icmphdr, checksum)
Bytes    == {0, 1, 128, 255}
WordMod  == 65536    \* uint16_t

\* *p for a const uint16_t* p at byte i of the buffer, on the little-endian
\* hosts both builds target.
Word(buf, i) == buf[i] + 256 * buf[i + 1]

\* while (len > 1) sum += *p++; if (len) sum += *(const uint8_t*)p;
\* the uint32_t sum cannot overflow on buffers this short.
RECURSIVE SumWords(_, _)
SumWords(buf, i) ==
    IF i + 1 <= Len(buf) THEN Word(buf, i) + SumWords(buf, i + 2)
    ELSE IF i = Len(buf) THEN buf[i]
    ELSE 0

\* while (sum >> 16) sum = (sum & 0xFFFF) + (sum >> 16);
RECURSIVE Fold(_)
Fold(sum) ==
    IF sum \div WordMod # 0
    THEN Fold((sum % WordMod) + (sum \div WordMod))
    ELSE sum

\* Variant of checksum16 without the carry-folding loop.
checksum16_NoFold(buf) == (WordMod - 1) - (SumWords(buf, 1) % WordMod)

\* return static_cast<uint16_t>(~sum);
checksum16(buf) == (WordMod - 1) - Fold(SumWords(buf, 1))

\* hdr->checksum = v: a uint16_t stored in host order.
StoreChecksum(buf, v) ==
    [buf EXCEPT ![CsumOff + 1] = v % 256, ![CsumOff + 2] = v \div 256]

\* Messages with the checksum field zeroed, of even and odd length.
Buffers ==
    UNION { { b \in [1 .. n -> Bytes] : b[CsumOff + 1] = 0 /\ b[CsumOff + 2] = 0 }
            : n \in CsumOff + 2 .. MaxLen }

\* hdr->checksum = checksum16(packet.data(), packet.size());
ChecksumFill ==
    /\ cpc = "zeroed"
    /\ packet' = StoreChecksum(packet, checksum16(packet))
    /\ cpc' = "filled"
    /\ UNCHANGED << coreVars, fast, host, run, sideVars >>

InitChecksum ==
    /\ EngineInit
    /\ SideIdle
    /\ packet \in Buffers
    /\ cpc = "zeroed"
    /\ FastIdle
    /\ HostIdle
    /\ RunIdle

NextChecksum == ChecksumFill

SpecChecksum == InitChecksum /\ [][NextChecksum]_vars

\* ------------------------------------- ping_once_engine, local fast path
MaxTimeout == 3      \* largest timeout_ms passed
MaxElapsed == 5      \* milliseconds followed after the send

\* What recvmsg can hand back before its receive timeout: a datagram shorter
\* than an ICMP header, one that is no Echo Reply, an Echo Reply for another
\* (id, seq), or the Echo Reply of this call.
FastFrames == {"short", "noreply", "mismatch", "match"}

\* t_send = now(); send(s, ...): the call enters the receive loop, or
\* reports "send() failed".
FastSend(ok) ==
    /\ fast.pc = "send"
    /\ fast' = IF ok
               THEN [fast EXCEPT !.pc = "recv"]
               ELSE [fast EXCEPT !.pc = "done", !.error_msg = "send() failed"]
    /\ UNCHANGED << coreVars, packet, cpc, host, run, sideVars >>

\* A millisecond passes while recvmsg blocks.  SO_RCVTIMEO = timeout_ms was
\* set once on the socket and counts from the start of each recvmsg call.
FastTick ==
    /\ fast.pc = "recv"
    /\ fast.waited < fast.timeout_ms
    /\ fast.elapsed < MaxElapsed
    /\ fast' = [fast EXCEPT !.waited = @ + 1, !.elapsed = @ + 1]
    /\ UNCHANGED << coreVars, packet, cpc, host, run, sideVars >>

\* recvmsg returned a datagram: continue (a new recvmsg call, a new receive
\* timeout) unless it is the Echo Reply of this call.
FastFrame(f) ==
    /\ fast.pc = "recv"
    /\ f \in FastFrames
    /\ fast' = IF f = "match"
               THEN [fast EXCEPT !.pc = "done", !.success = TRUE]
               ELSE [fast EXCEPT !.waited = 0]
    /\ UNCHANGED << coreVars, packet, cpc, host, run, sideVars >>

\* recvmsg returned -1: EAGAIN / EWOULDBLOCK once the receive timeout ran
\* out, EINTR at any moment (both reported as "Timeout"), or another error.
FastRecvError(e) ==
    /\ fast.pc = "recv"
    /\ e \in {"EAGAIN", "EINTR", "other"}
    /\ e = "EAGAIN" => fast.waited = fast.timeout_ms
    /\ fast' = [fast EXCEPT !.pc = "done",
                            !.error_msg = IF e = "other"
                                          THEN "recvmsg() failed"
                                          ELSE "Timeout"]
    /\ UNCHANGED << coreVars, packet, cpc, host, run, sideVars >>

\* A call on the fast path, about to send, with its timeout_ms.
InitFast ==
    /\ EngineInit
    /\ SideIdle
    /\ platform = "linux"
    /\ ChecksumIdle
    /\ HostIdle
    /\ RunIdle
    /\ \E tmo \in 1 .. MaxTimeout :
          fast = [pc |-> "send", timeout_ms |-> tmo, waited |-> 0,
                  elapsed |-> 0, success |-> FALSE, error_msg |-> ""]

NextFast ==
    \/ \E ok \in BOOLEAN : FastSend(ok)
    \/ FastTick
    \/ \E f \in FastFrames : FastFrame(f)
    \/ \E e \in {"EAGAIN", "EINTR", "other"} : FastRecvError(e)

SpecFast == InitFast /\ [][NextFast]_vars

\* -------------------------------------------------------------- ping_host
MaxRetries == 2      \* largest opt.retries passed
MaxRtt     == 1      \* round-trip times run over 0 .. MaxRtt

NoTtl  == -1                 \* int ttl = -1: no TTL was read
IpTtls == {1, 64}            \* TTL field of a received IPv4 datagram

\* What one ping_once_* call hands back: the PingProbeResult, whether an
\* Echo Request went out, whether the call ended in an exception.
Outcome(s, r, t, e, n) ==
    [success |-> s, rtt_ms |-> r, ttl |-> t, error_msg |-> e, sent |-> n,
     thrown |-> FALSE]
Failure(e, n) == Outcome(FALSE, RttUnset, NoTtl, e, n)
Escaped == [Failure("", 1) EXCEPT !.thrown = TRUE]

\* ping_once_linux: ttl as read from the IP_TTL control message (or left at
\* -1), then ttl++; probe.ttl = (ttl >= 0 ? ttl : -1).
LinuxTtl(c) == IF c + 1 >= 0 THEN c + 1 ELSE NoTtl

LinuxOutcomes ==
    { Failure("socket() failed", 0), Failure("connect() failed", 0),
      Failure("send() failed", 0), Failure("recvmsg() failed", 1),
      Failure("No reply received", 1) }
    \cup { Outcome(TRUE, r, LinuxTtl(c), "", 1) :
              r \in 0 .. MaxRtt, c \in IpTtls \cup {NoTtl} }

\* ping_once_win without the engine: local addresses through
\* icmp_ping_local (ttl++ unless -1), others through the capture.
WinOutcomes(ip) ==
    IF ip = "local"
    THEN { Failure("Local ICMP failed", 1) }
         \cup { Outcome(TRUE, r, c + 1, "", 1) : r \in 0 .. MaxRtt, c \in IpTtls }
    ELSE { Failure("pcap_findalldevs failed", 0), Failure("No suitable device", 0),
           Failure("open_capture failed", 0), Failure("apply_icmp_filter failed", 0),
           Failure("send_icmp_echo_raw failed", 0), Failure("No reply received", 1) }
         \cup { Outcome(TRUE, r, c, "", 1) : r \in 0 .. MaxRtt, c \in IpTtls }

\* ping_once_win with engine_available(): ping_once_engine of the Windows
\* build, whose fut.get() can throw.
WinEngineOutcomes(ip) ==
    IF ip = "local"
    THEN { Failure("Local ICMP failed", 1) }
         \cup { Outcome(TRUE, r, c, "", 1) : r \in 0 .. MaxRtt, c \in IpTtls }
    ELSE { Failure("Engine socket not available", 0), Failure("sendto failed", 0),
           Failure("Timeout", 1), Escaped }
         \cup { Outcome(TRUE, r, c, "", 1) : r \in 0 .. MaxRtt, c \in IpTtls }

\* Variant of ProbeOutcomes that goes on to the network without parsing the
\* address.
ProbeOutcomes_NoValidate(plat, engine, ip) ==
    IF plat = "linux" THEN LinuxOutcomes
    ELSE IF engine THEN WinEngineOutcomes(ip)
    ELSE WinOutcomes(ip)

\* One probe of ping_host: inet_pton / InetPtonA first, in every variant.
ProbeOutcomes(plat, engine, ip) ==
    IF ip = "invalid"
    THEN { Failure(IF plat = "win" /\ engine THEN "Invalid IP"
                   ELSE "Invalid IP address", 0) }
    ELSE IF plat = "linux" THEN LinuxOutcomes
    ELSE IF engine THEN WinEngineOutcomes(ip)
    ELSE WinOutcomes(ip)

\* const int attempts = std::max(1, opt.retries);
Attempts(h) == IF h.retries > 1 THEN h.retries ELSE 1

\* The PingProbeResult of an outcome.
ProbeOf(o) ==
    [success |-> o.success, rtt_ms |-> o.rtt_ms, ttl |-> o.ttl,
     error_msg |-> o.error_msg]

\* Variant of HostProbe that takes RTT and TTL from every successful probe,
\* without comparing it to the best so far.
HostProbe_LastWins(engine, o) ==
    /\ host.pc = "loop"
    /\ host.i < Attempts(host)
    /\ o \in ProbeOutcomes(platform, engine, host.ip)
    /\ host' =
          IF o.thrown
          THEN [host EXCEPT !.pc = "thrown", !.sent = @ + o.sent]
          ELSE [host EXCEPT
                  !.probes = Append(@, ProbeOf(o)),
                  !.sent = @ + o.sent,
                  !.rtt_ms = IF o.success THEN o.rtt_ms ELSE @,
                  !.ttl = IF o.success THEN o.ttl ELSE @,
                  !.any_ok = @ \/ o.success,
                  !.i = @ + 1,
                  !.pc = IF o.success /\ host.stop_on_first_success
                         THEN "exit" ELSE "loop"]
    /\ UNCHANGED << coreVars, packet, cpc, fast, run, sideVars >>

\* Variant of HostProbe that goes on to the next attempt after a success,
\* whatever opt.stop_on_first_success says.
HostProbe_NoBreak(engine, o) ==
    /\ host.pc = "loop"
    /\ host.i < Attempts(host)
    /\ o \in ProbeOutcomes(platform, engine, host.ip)
    /\ host' =
          IF o.thrown
          THEN [host EXCEPT !.pc = "thrown", !.sent = @ + o.sent]
          ELSE [host EXCEPT
                  !.probes = Append(@, ProbeOf(o)),
                  !.sent = @ + o.sent,
                  !.rtt_ms = IF o.success /\ (~host.any_ok \/ o.rtt_ms < @)
                             THEN o.rtt_ms ELSE @,
                  !.ttl = IF o.success /\ (~host.any_ok \/ o.rtt_ms < host.rtt_ms)
                          THEN o.ttl ELSE @,
                  !.any_ok = @ \/ o.success,
                  !.i = @ + 1]
    /\ UNCHANGED << coreVars, packet, cpc, fast, run, sideVars >>

\* One turn of the loop: probe, push_back, keep the best RTT with its TTL,
\* break on the first success when asked to.
HostProbe(engine, o) ==
    /\ host.pc = "loop"
    /\ host.i < Attempts(host)
    /\ o \in ProbeOutcomes(platform, engine, host.ip)
    /\ host' =
          IF o.thrown
          THEN [host EXCEPT !.pc = "thrown", !.sent = @ + o.sent]
          ELSE [host EXCEPT
                  !.probes = Append(@, ProbeOf(o)),
                  !.sent = @ + o.sent,
                  !.rtt_ms = IF o.success /\ (~host.any_ok \/ o.rtt_ms < @)
                             THEN o.rtt_ms ELSE @,
                  !.ttl = IF o.success /\ (~host.any_ok \/ o.rtt_ms < host.rtt_ms)
                          THEN o.ttl ELSE @,
                  !.any_ok = @ \/ o.success,
                  !.i = @ + 1,
                  !.pc = IF o.success /\ host.stop_on_first_success
                         THEN "exit" ELSE "loop"]
    /\ UNCHANGED << coreVars, packet, cpc, fast, run, sideVars >>

\* result.reachable = any_ok; return result.
HostReturn ==
    /\ \/ host.pc = "exit"
       \/ host.pc = "loop" /\ host.i >= Attempts(host)
    /\ host' = [host EXCEPT !.pc = "done", !.reachable = host.any_ok]
    /\ UNCHANGED << coreVars, packet, cpc, fast, run, sideVars >>

\* A call of ping_host with some address and some options.
InitHost ==
    /\ EngineInit
    /\ SideIdle
    /\ ChecksumIdle
    /\ FastIdle
    /\ RunIdle
    /\ \E ip \in Dests, n \in 0 .. MaxRetries, stop \in BOOLEAN :
          host = HostCall("loop", ip, n, stop)

NextHost ==
    \/ \E e \in BOOLEAN :
          \E o \in ProbeOutcomes(platform, e, host.ip) : HostProbe(e, o)
    \/ HostReturn

SpecHost == InitHost /\ [][NextHost]_vars

\* --------------------------------------------------------------- run_ping
MaxCount == 2        \* largest opt.count passed
MaxSent  == 3        \* pings followed in a continuous run without a count

\* while (keep_running && (opt.count < 0 || sent < opt.count))
RunLoops ==
    run.keep_running /\ (run.count < 0 \/ run.sent < run.count)

\* One turn of the continuous loop: sent++; res = ping_host(...);
\* received++ when res.reachable.
RunContinuousPing(reached) ==
    /\ run.pc = "call"
    /\ run.continuous
    /\ RunLoops
    /\ run.sent < MaxSent
    /\ run' = [run EXCEPT !.sent = @ + 1,
                          !.received = IF reached THEN @ + 1 ELSE @]
    /\ UNCHANGED << coreVars, packet, cpc, fast, host, sideVars >>

\* handle_sigint: CTRL+C during a continuous run.
RunSigint ==
    /\ run.pc = "call"
    /\ run.continuous
    /\ run.keep_running
    /\ run' = [run EXCEPT !.keep_running = FALSE]
    /\ UNCHANGED << coreVars, packet, cpc, fast, host, sideVars >>

\* The continuous loop is left: summary, export, return 0.
RunContinuousReturn ==
    /\ run.pc = "call"
    /\ run.continuous
    /\ ~RunLoops
    /\ run' = [run EXCEPT !.pc = "done", !.rc = 0]
    /\ UNCHANGED << coreVars, packet, cpc, fast, host, sideVars >>

\* int total_attempts = (opt.count > 0) ? opt.count : max(1, retries);
TotalAttempts ==
    IF run.count > 0 THEN run.count
    ELSE IF run.retries > 1 THEN run.retries ELSE 1

\* The results ping_host can hand to run_ping: max(1, retries) failed probes
\* and reachable = false, or some failed probes followed by a successful
\* one, whose RTT is the result's (stop_on_first_success is the default).
RunAttempts ==
    LET n == IF run.retries > 1 THEN run.retries ELSE 1
        failed(k) == [j \in 1 .. k |-> [success |-> FALSE, rtt_ms |-> RttUnset]]
    IN  { [reachable |-> FALSE, rtt_ms |-> RttUnset, probes |-> failed(n)] }
        \cup
        { [reachable |-> TRUE, rtt_ms |-> r,
           probes |-> Append(failed(k), [success |-> TRUE, rtt_ms |-> r])] :
             k \in 0 .. n - 1, r \in 0 .. MaxRtt }

\* One turn of the normal-mode loop: attempt = ping_host(...); the
\* attempt's probes are appended to res.probes; then res becomes the attempt,
\* probes included, when it is reachable and res is not, or is slower.
\* run.attempts records the probes of every attempt made, in order.
RunNormalPing(attempt) ==
    /\ run.pc = "call"
    /\ ~run.continuous
    /\ run.i < TotalAttempts
    /\ attempt \in RunAttempts
    /\ LET better == attempt.reachable /\
                      (~run.reachable \/ attempt.rtt_ms < run.rtt_ms)
       IN  run' = [run EXCEPT
                     !.i = @ + 1,
                     !.sent = @ + 1,
                     !.received = IF attempt.reachable THEN @ + 1 ELSE @,
                     !.attempts = @ \o attempt.probes,
                     !.probes = IF better THEN attempt.probes
                                ELSE @ \o attempt.probes,
                     !.rtt_ms = IF better THEN attempt.rtt_ms ELSE @,
                     !.reachable = IF better THEN TRUE ELSE @]
    /\ UNCHANGED << coreVars, packet, cpc, fast, host, sideVars >>

\* if (res.reachable) { ...; return 0; } ...; return 1;
RunNormalReturn ==
    /\ run.pc = "call"
    /\ ~run.continuous
    /\ run.i >= TotalAttempts
    /\ run' = [run EXCEPT !.pc = "done",
                          !.rc = IF run.reachable THEN 0 ELSE 1]
    /\ UNCHANGED << coreVars, packet, cpc, fast, host, sideVars >>

\* A call of run_ping in either mode.
InitRun ==
    /\ EngineInit
    /\ SideIdle
    /\ ChecksumIdle
    /\ FastIdle
    /\ HostIdle
    /\ \E c \in BOOLEAN, n \in -1 .. MaxCount, r \in 0 .. MaxRetries :
          run = RunCall("call", c, n, r)

NextRun ==
    \/ \E b \in BOOLEAN : RunContinuousPing(b)
    \/ RunSigint
    \/ RunContinuousReturn
    \/ \E a \in RunAttempts : RunNormalPing(a)
    \/ RunNormalReturn

SpecRun == InitRun /\ [][NextRun]_vars

\* ------------------------------------------------ IP_TTL on the engine socket
\* The TTL an outgoing datagram gets when no probe has set one: init_engine
\* sets 64 on Linux; the Windows build leaves the system's default.
DefaultTtl(p) == IF p = "linux" THEN 64 ELSE 128

\* The ttl arguments the probes are called with.
TtlArgs == {0, 1, 2}

\* The engine is started and no probe is running: the socket has its
\* default TTL.
WireCall(p) ==
    [pc |-> "run",
     sock_ttl |-> DefaultTtl(p),
     at |-> [t \in Threads |-> "idle"],
     ttl |-> [t \in Threads |-> 0],
     sent_ttl |-> [t \in Threads |-> 0]]

\* A thread calls ping_once_engine(ip, timeout, payload, ttl) and gets as far
\* as the built packet.
WireProbe(t, ttl) ==
    /\ wire.pc = "run"
    /\ wire.at[t] \in {"idle", "done"}
    /\ wire' = [wire EXCEPT !.at[t] = "built", !.ttl[t] = ttl]
    /\ UNCHANGED << coreVars, packet, cpc, fast, host, run, req, rx, life >>

\* if (ttl > 0) setsockopt(g_sock, IPPROTO_IP, IP_TTL, &ttl, sizeof(ttl));
WireSetTtl(t) ==
    /\ wire.pc = "run"
    /\ wire.at[t] = "built"
    /\ wire' = [wire EXCEPT !.at[t] = "set",
                            !.sock_ttl = IF wire.ttl[t] > 0 THEN wire.ttl[t]
                                         ELSE @]
    /\ UNCHANGED << coreVars, packet, cpc, fast, host, run, req, rx, life >>

\* sendto(g_sock, ...): the datagram leaves with the TTL the socket has now.
WireSend(t) ==
    /\ wire.pc = "run"
    /\ wire.at[t] = "set"
    /\ wire' = [wire EXCEPT !.at[t] = "done", !.sent_ttl[t] = wire.sock_ttl]
    /\ UNCHANGED << coreVars, packet, cpc, fast, host, run, req, rx, life >>

InitWire ==
    /\ EngineInit
    /\ ChecksumIdle
    /\ FastIdle
    /\ HostIdle
    /\ RunIdle
    /\ wire = WireCall(platform)
    /\ req = [pc |-> "none"]
    /\ rx = [pc |-> "none"]
    /\ life = [pc |-> "none"]

NextWire ==
    \/ \E t \in Threads, ttl \in TtlArgs : WireProbe(t, ttl)
    \/ \E t \in Threads : WireSetTtl(t)
    \/ \E t \in Threads : WireSend(t)

SpecWire == InitWire /\ [][NextWire]_vars

\* ------------------------------------------------------- the request buffer
\* sizeof(icmphdr), sizeof(IcmpHeader): the ICMP header.
HeaderLen == 8

\* sizeof(uint64_t): the timestamp that follows the header.
StampLen == 8

\* payload_size ranges over -MaxPayload .. MaxPayload.
MaxPayload == 18

\* The length of a vector that cannot be allocated.
TooLong == -1

\* size_t arithmetic: fixed + payload_size with payload_size converted to
\* size_t, that is (fixed + payload_size) mod 2^64. For an int payload_size
\* a negative sum wraps to 2^64 - 2^31 or more, which is above max_size() of
\* any vector: the constructor throws std::length_error.
SizeSum(fixed, payload_size) ==
    IF fixed + payload_size >= 0 THEN fixed + payload_size ELSE TooLong

\* The buffer the timestamp is copied into: the packet itself on Linux,
\* the vector payload on Windows.
StampBuffer(p, payload_size) ==
    IF p = "linux" THEN SizeSum(HeaderLen + StampLen, payload_size)
    ELSE SizeSum(StampLen, payload_size)

\* Where in that buffer the timestamp is copied to.
StampOffset(p) == IF p = "linux" THEN HeaderLen ELSE 0

\* The request as sent: the Linux packet, or on Windows the header followed
\* by the payload vector.
PacketLen(p, payload_size) ==
    IF p = "linux" THEN StampBuffer(p, payload_size)
    ELSE HeaderLen + StampBuffer(p, payload_size)

\* The exception of a vector that cannot be allocated.
LengthError ==
    [kind |-> "throw", success |-> FALSE, error_msg |-> "std::length_error"]

\* The engine is started and thread t, in ping_once_engine, has taken the
\* first sequence number and registered its promise: it is about to build
\* its request.
ReqEngine(t) ==
    /\ platform \in Platforms
    /\ g_running = TRUE
    /\ g_sock = SockFd
    /\ g_cap = (platform = "win")
    /\ rx_closed = FALSE
    /\ lis = "top"
    /\ g_waiters = TableEmplace(EmptyTable, SeqInit, t)
    /\ g_mtx = Free
    /\ g_seq = SeqInit + 1
    /\ lpc = "idle"
    /\ pc = [u \in Threads |-> IF u = t THEN "send" ELSE "idle"]
    /\ key = [u \in Threads |-> IF u = t THEN SeqInit ELSE 0]
    /\ fut = [u \in Threads |-> IF u = t THEN "empty" ELSE "none"]
    /\ nset = [u \in Threads |-> 0]
    /\ how = [u \in Threads |-> "none"]
    /\ ret = [u \in Threads |-> NoRet]
    /\ late = [u \in Threads |-> FALSE]
    /\ issued = 1
    /\ bursts = 0
    /\ clock = 0
    /\ t_send = [u \in Threads |-> 0]
    /\ rtt_ms = [u \in Threads |-> RttUnset]

\* ping_once_engine is called with payload_size, as cping_ping_once_engine
\* passes it on.
ReqCall(payload_size) ==
    [pc |-> "call", thread |-> 1, payload_size |-> payload_size,
     buffer |-> 0, packet |-> 0, inside |-> TRUE]

\* std::vector<unsigned char> packet(... + payload_size, 0), or the vector
\* payload on Windows: the allocation, or the exception of a length that
\* cannot be allocated, which nothing catches: it leaves ping_once_engine
\* past the block that registered the promise.
ReqAllocate ==
    /\ req.pc = "call"
    /\ LET n == StampBuffer(platform, req.payload_size)
       IN  IF n = TooLong
           THEN /\ req' = [req EXCEPT !.pc = "thrown"]
                /\ pc' = [pc EXCEPT ![req.thread] = "idle"]
                /\ ret' = [ret EXCEPT ![req.thread] = LengthError]
           ELSE /\ req' = [req EXCEPT !.pc = "allocated", !.buffer = n]
                /\ UNCHANGED << pc, ret >>
    /\ UNCHANGED << platform, lifeVars, tableVars, g_mtx, g_seq, key, late,
                    issued, bursts, timeVars >>
    /\ UNCHANGED << packet, cpc, fast, host, run, wire, rx, life >>

\* The header fields and the memcpy of the timestamp. A write that ends
\* past the buffer is undefined: the call may go on to send, or crash.
ReqFill(crash) ==
    /\ req.pc = "allocated"
    /\ LET hdr_end == IF platform = "linux" THEN HeaderLen ELSE 0
           stamp_end == StampOffset(platform) + StampLen
           ok == hdr_end <= req.buffer /\ stamp_end <= req.buffer
       IN  /\ crash => ~ok
           /\ req' = [req EXCEPT
                        !.pc = IF crash THEN "crashed" ELSE "filled",
                        !.inside = ok,
                        !.packet = PacketLen(platform, req.payload_size)]
    /\ UNCHANGED << coreVars, packet, cpc, fast, host, run, wire, rx, life >>

InitReq ==
    /\ ReqEngine(1)
    /\ ChecksumIdle
    /\ FastIdle
    /\ HostIdle
    /\ RunIdle
    /\ wire = [pc |-> "none"]
    /\ \E n \in -MaxPayload .. MaxPayload : req = ReqCall(n)
    /\ rx = [pc |-> "none"]
    /\ life = [pc |-> "none"]

NextReq ==
    \/ ReqAllocate
    \/ \E crash \in BOOLEAN : ReqFill(crash)

SpecReq == InitReq /\ [][NextReq]_vars

\* ------------------------------------------------- replies and their source
\* The hosts frames come from; the probe's destination is one of them.
Hosts == {"D", "E"}

\* The sequence numbers of the probe and of the frames.
RxSeqs == {1, 2}

\* The listener reads at most MaxFrames frames.
MaxFrames == 2

\* What the listener can read: the source address, the ICMP type, the
\* (id, seq) of the echo header; the id is the process's in every frame.
RxFrames == [src : Hosts, type : {"reply", "request"}, seq : RxSeqs]

\* A probe to dest is registered under seq, sent, and waits.
RxCall(dest, seq) ==
    [pc |-> "wait", dest |-> dest, seq |-> seq, waiters |-> {seq},
     frames |-> 0, success |-> FALSE, error_msg |-> "", from |-> "nobody"]

\* One frame through listener_loop: anything but an Echo Reply is skipped;
\* Key k{id, seq} is looked up and, when present, erased and its promise
\* set to success. The source address (src, the IP header) is not read.
RxFrame(f) ==
    /\ rx.pc \in {"wait", "ready", "timeout"}
    /\ rx.frames < MaxFrames
    /\ f \in RxFrames
    /\ rx' = IF f.type = "reply" /\ f.seq \in rx.waiters
             THEN [rx EXCEPT !.frames = @ + 1,
                             !.waiters = @ \ {f.seq},
                             !.from = f.src,
                             !.pc = IF @ = "wait" THEN "ready" ELSE @]
             ELSE [rx EXCEPT !.frames = @ + 1]
    /\ UNCHANGED << coreVars, packet, cpc, fast, host, run, wire, req, life >>

\* fut.wait_for(...) == ready: probe = fut.get(); return probe.
RxReady ==
    /\ rx.pc = "ready"
    /\ rx' = [rx EXCEPT !.pc = "done", !.success = TRUE]
    /\ UNCHANGED << coreVars, packet, cpc, fast, host, run, wire, req, life >>

\* wait_for times out.
RxDeadline ==
    /\ rx.pc = "wait"
    /\ rx' = [rx EXCEPT !.pc = "timeout"]
    /\ UNCHANGED << coreVars, packet, cpc, fast, host, run, wire, req, life >>

\* Timeout: g_waiters.erase(k); error_msg = "Timeout"; return probe.
RxTimeout ==
    /\ rx.pc = "timeout"
    /\ rx' = [rx EXCEPT !.pc = "done", !.waiters = @ \ {rx.seq},
                        !.error_msg = "Timeout"]
    /\ UNCHANGED << coreVars, packet, cpc, fast, host, run, wire, req, life >>

InitRx ==
    /\ EngineInit
    /\ ChecksumIdle
    /\ FastIdle
    /\ HostIdle
    /\ RunIdle
    /\ wire = [pc |-> "none"]
    /\ req = [pc |-> "none"]
    /\ \E d \in Hosts, s \in RxSeqs : rx = RxCall(d, s)
    /\ life = [pc |-> "none"]

NextRx ==
    \/ \E f \in RxFrames : RxFrame(f)
    \/ RxReady
    \/ RxDeadline
    \/ RxTimeout

SpecRx == InitRx /\ [][NextRx]_vars

\* --------------------------------------- two lifecycle calls at the same time
\* init_engine and shutdown_engine take no lock and keep no "in progress"
\* mark: two threads can be inside the same function at once, each at its
\* own statement. life.at[t] is the statement thread t stands before.
LifeCall(op) ==
    [pc |-> "run", op |-> op,
     at |-> [t \in Threads |-> "enter"],
     opens |-> 0,          \* socket() calls that returned a descriptor
     closes |-> 0,         \* close() calls on an open descriptor
     joins |-> 0,          \* g_listener.join() calls on the joinable handle
     overwritten |-> FALSE \* g_listener assigned while joinable
    ]

\* The engine as a successful init_engine leaves it.
LifeStarted ==
    /\ g_running = TRUE
    /\ g_sock = SockFd
    /\ lis = "top"

\* The engine before any init_engine.
LifeStopped ==
    /\ g_running = FALSE
    /\ g_sock = NoSock
    /\ lis = "none"

lifeRest == << platform, g_cap, g_waiters, g_mtx, g_seq, lpc, pc, key, fut,
               nset, how, ret, late, issued, bursts, clock, t_send, rtt_ms,
               packet, cpc, fast, host, run, wire, req, rx >>

LifeGoto(t, where) == life' = [life EXCEPT !.at[t] = where]

\* if (g_running.load()) return true;
LifeStartTest(t) ==
    /\ life.pc = "run" /\ life.op = "start" /\ life.at[t] = "enter"
    /\ LifeGoto(t, IF g_running THEN "done" ELSE "open")
    /\ UNCHANGED << lifeRest, g_running, g_sock, rx_closed, lis >>

\* int s = ::socket(...); if (s < 0) return false; setsockopt...; g_sock = s;
LifeOpen(t, ok) ==
    /\ life.pc = "run" /\ life.at[t] = "open"
    /\ IF ok
       THEN /\ life' = [life EXCEPT !.at[t] = "mark", !.opens = @ + 1]
            /\ g_sock' = SockFd
       ELSE /\ LifeGoto(t, "done")
            /\ UNCHANGED g_sock
    /\ UNCHANGED << lifeRest, g_running, rx_closed, lis >>

\* g_running = true;
LifeMark(t) ==
    /\ life.pc = "run" /\ life.at[t] = "mark"
    /\ g_running' = TRUE
    /\ LifeGoto(t, "spawn")
    /\ UNCHANGED << lifeRest, g_sock, rx_closed, lis >>

\* g_listener = std::thread(listener_loop): the move assignment to a handle
\* that is still joinable calls std::terminate.
LifeSpawn(t) ==
    /\ life.pc = "run" /\ life.at[t] = "spawn"
    /\ IF lis # "none"
       THEN /\ life' = [life EXCEPT !.pc = "terminated", !.overwritten = TRUE]
            /\ UNCHANGED lis
       ELSE /\ LifeGoto(t, "done")
            /\ lis' = "top"
    /\ UNCHANGED << lifeRest, g_running, g_sock, rx_closed >>

\* g_running = false;
LifeStopMark(t) ==
    /\ life.pc = "run" /\ life.op = "stop" /\ life.at[t] = "enter"
    /\ g_running' = FALSE
    /\ LifeGoto(t, "wake")
    /\ UNCHANGED << lifeRest, g_sock, rx_closed, lis >>

\* if (g_sock >= 0) ::shutdown(g_sock, SHUT_RD);
LifeWake(t) ==
    /\ life.pc = "run" /\ life.at[t] = "wake"
    /\ rx_closed' = (rx_closed \/ g_sock # NoSock)
    /\ LifeGoto(t, "jointest")
    /\ UNCHANGED << lifeRest, g_running, g_sock, lis >>

\* listener_loop leaves its loop: recvmsg returns 0 after SHUT_RD.
LifeListenerExit ==
    /\ life.pc = "run"
    /\ lis = "top"
    /\ rx_closed
    /\ lis' = "exited"
    /\ UNCHANGED << lifeRest, life, g_running, g_sock, rx_closed >>

\* if (g_listener.joinable()) { g_listener.join() is called ...
LifeJoinCall(t) ==
    /\ life.pc = "run" /\ life.at[t] = "jointest"
    /\ life' = IF lis # "none"
               THEN [life EXCEPT !.at[t] = "joining", !.joins = @ + 1]
               ELSE [life EXCEPT !.at[t] = "closetest"]
    /\ UNCHANGED << lifeRest, g_running, g_sock, rx_closed, lis >>

\* ... and returns when the listener has ended, or throws into the catch
\* when the other call has joined it in the meantime.
LifeJoinReturn(t) ==
    /\ life.pc = "run" /\ life.at[t] = "joining"
    /\ lis \in {"exited", "none"}
    /\ lis' = "none"
    /\ LifeGoto(t, "closetest")
    /\ UNCHANGED << lifeRest, g_running, g_sock, rx_closed >>

\* if (g_sock >= 0) {
LifeCloseTest(t) ==
    /\ life.pc = "run" /\ life.at[t] = "closetest"
    /\ LifeGoto(t, IF g_sock # NoSock THEN "close" ELSE "done")
    /\ UNCHANGED << lifeRest, g_running, g_sock, rx_closed, lis >>

\* ::close(g_sock);
LifeClose(t) ==
    /\ life.pc = "run" /\ life.at[t] = "close"
    /\ life' = [life EXCEPT !.at[t] = "clear",
                            !.closes = IF g_sock # NoSock THEN @ + 1 ELSE @]
    /\ UNCHANGED << lifeRest, g_running, g_sock, rx_closed, lis >>

\* g_sock = -1; } and the drain of the (empty) table.
LifeClear(t) ==
    /\ life.pc = "run" /\ life.at[t] = "clear"
    /\ g_sock' = NoSock
    /\ LifeGoto(t, "done")
    /\ UNCHANGED << lifeRest, g_running, rx_closed, lis >>

\* Two threads call init_engine on a stopped engine, or shutdown_engine on a
\* started one, at the same time (Linux build).
InitLife ==
    /\ platform = "linux"
    /\ g_cap = FALSE
    /\ rx_closed = FALSE
    /\ g_waiters = EmptyTable
    /\ g_mtx = Free
    /\ g_seq = SeqInit
    /\ lpc = "idle"
    /\ pc = [t \in Threads |-> "idle"]
    /\ key = [t \in Threads |-> 0]
    /\ fut = [t \in Threads |-> "none"]
    /\ nset = [t \in Threads |-> 0]
    /\ how = [t \in Threads |-> "none"]
    /\ ret = [t \in Threads |-> NoRet]
    /\ late = [t \in Threads |-> FALSE]
    /\ issued = 0
    /\ bursts = 0
    /\ clock = 0
    /\ t_send = [t \in Threads |-> 0]
    /\ rtt_ms = [t \in Threads |-> RttUnset]
    /\ ChecksumIdle
    /\ FastIdle
    /\ HostIdle
    /\ RunIdle
    /\ wire = [pc |-> "none"]
    /\ req = [pc |-> "none"]
    /\ rx = [pc |-> "none"]
    /\ \/ LifeStopped /\ life = LifeCall("start")
       \/ LifeStarted /\ life = LifeCall("stop")

NextLife ==
    \/ \E t \in Threads : LifeStartTest(t)
    \/ \E t \in Threads, ok \in BOOLEAN : LifeOpen(t, ok)
    \/ \E t \in Threads : LifeMark(t)
    \/ \E t \in Threads : LifeSpawn(t)
    \/ \E t \in Threads : LifeStopMark(t)
    \/ \E t \in Threads : LifeWake(t)
    \/ LifeListenerExit
    \/ \E t \in Threads : LifeJoinCall(t)
    \/ \E t \in Threads : LifeJoinReturn(t)
    \/ \E t \in Threads : LifeCloseTest(t)
    \/ \E t \in Threads : LifeClose(t)
    \/ \E t \in Threads : LifeClear(t)

SpecLife == InitLife /\ [][NextLife]_vars

TypeOK ==
    /\ platform \in Platforms
    /\ g_running \in BOOLEAN
    /\ g_sock \in {NoSock, SockFd}
    /\ lis \in {"none", "top", "recv", "exited"}
    /\ lpc \in {"idle", "spawn", "join", "drain"}
    /\ g_mtx \in {Free, ListenerId, StopId} \cup Threads
    /\ clock \in 0 .. MaxClock
    /\ g_seq \in 0 .. SeqMod - 1
    /\ \A t \in Threads :
          /\ pc[t] \in {"idle", "reg", "send", "wait", "timedout"}
          /\ fut[t] \in {"none", "empty", "reply", "drain", "broken"}
          /\ how[t] \in {"none", "listener", "drain", "erase"}
          /\ t_send[t] \in 0 .. MaxClock
          /\ rtt_ms[t] \in RttUnset .. MaxClock

\* =================================================================== claims
Returned(t)  == pc[t] = "idle" /\ ret[t].kind # "none"
TimeoutVal   == Val(FALSE, "Timeout")

\* C1: a probe that was waiting when stop() ran observes exactly one of a
\* listener-delivered success or the drain's failure outcome: once it has
\* returned, what it got is a value, a success when the listener took its
\* entry and a failure when the drain did.
C1_StopOutcomeObserved ==
    \A t \in Threads :
        (Returned(t) /\ how[t] \in {"listener", "drain"})
            => /\ ret[t].kind = "value"
               /\ how[t] = "drain" => ret[t].success = FALSE

\* C2: shutdown drains completely: once stop() has returned, every waiter the
\* drain took out holds the failure outcome (success = false), none is left
\* empty or without an outcome.
C2_DrainResolvesAll ==
    \A t \in Threads :
        (how[t] = "drain" /\ lpc = "idle") => fut[t] = "drain"

\* C3: no call to probe() ever ends in a thrown exception; every call
\* returns a ProbeOutcome value.
C3_NeverThrows ==
    \A t \in Threads : ret[t].kind # "throw"

\* C4: every failed outcome returned by probe(), the drain's included,
\* carries a non-empty error string.
C4_FailureHasError ==
    \A t \in Threads :
        (ret[t].kind = "value" /\ ret[t].success = FALSE)
            => ret[t].error_msg # ""

\* C5: when the listener resolves a key whose deadline has just elapsed, the
\* issuer's cancel loses the race and the probe returns the delivered outcome
\* instead of Timeout: no probe returns Timeout while its waiter holds the
\* listener's outcome.
C5_LostCancelIsResolved ==
    \A t \in Threads :
        (Returned(t) /\ fut[t] = "reply") => ret[t] # TimeoutVal

\* C6: at-most-one resolution: no waiter is the target of more than one
\* set_value; a waiter the listener took out holds the listener's outcome,
\* set once; and a resolution for a key with no entry (the second of two
\* replies, or a reply after the drain) changes neither the table nor any
\* waiter.
C6_AtMostOneResolution ==
    /\ [](\A t \in Threads :
             /\ nset[t] <= 1
             /\ how[t] = "listener" => (fut[t] = "reply" /\ nset[t] = 1)
             /\ how[t] = "none" => nset[t] = 0)
    /\ [][\A k \in FrameKeys :
             (ListenerFrame(k) /\ k \notin DOMAIN g_waiters)
                 => UNCHANGED << g_waiters, fut, nset, how >>]_vars

\* C6 witness: a waiter resolved once by the listener, and a second reply
\* for its key has since been looked up and found no entry.
C6_Witness ==
    \E t \in Threads :
        late[t] /\ how[t] = "listener" /\ nset[t] = 1 /\ fut[t] = "reply"

EnginePath(t) == fut[t] # "none"

\* C8: concurrent isolation: a reply resolves only a probe registered under
\* the (identifier, sequence) it carries; an engine-path probe returns
\* success only when the listener took its entry for such a reply; a probe
\* whose reply was delivered while it waited returns success; and a probe
\* that returns a value without any outcome having been delivered returns
\* Timeout (or the send failure).
C8_ConcurrentIsolation ==
    /\ [](\A t \in Threads :
             /\ (Returned(t) /\ EnginePath(t) /\ ret[t].success)
                    => (how[t] = "listener" /\ fut[t] = "reply")
             /\ (Returned(t) /\ EnginePath(t) /\ nset[t] = 0
                             /\ ret[t].kind = "value")
                    => ret[t] \in {TimeoutVal, Val(FALSE, SendFailMsg)})
    /\ [](\A k \in DOMAIN g_waiters : key[g_waiters[k]] = k)
    /\ [][/\ lis = "recv" =>
               \A k \in FrameKeys : ListenerFrame(k) =>
                  \A t \in Threads :
                     (fut'[t] # fut[t] \/ how'[t] # how[t]) => key[t] = k
          /\ \A t \in Threads :
                (pc[t] = "wait" /\ fut[t] = "reply" /\ pc'[t] # "wait")
                   => ret'[t] = Val(TRUE, "")]_vars

\* C8 witness: two probes in flight at once under distinct keys; the reply
\* for one has been delivered, the deadline of the other has elapsed with
\* nothing delivered.
C8_Witness ==
    \E t, u \in Threads :
        /\ key[t] # key[u]
        /\ pc[t] = "wait" /\ fut[t] = "reply" /\ how[t] = "listener"
        /\ pc[u] = "timedout" /\ fut[u] = "empty" /\ key[u] \in DOMAIN g_waiters

\* C9: the key allocated to a probe is unique among the probes registered
\* at the same time, however many probes have been issued: a key about to
\* be registered is never one the table already holds.
C9_KeysUnique ==
    \A t \in Threads :
        pc[t] = "reg" => key[t] \notin DOMAIN g_waiters

InFlight(t) == pc[t] # "idle"

\* C10: registering a key that is already present fails and leaves the owner
\* alone: a probe goes on to send only when its own promise went into (or
\* has since been taken out of) the table, and the entry of a probe still
\* in flight is never erased by another call.
C10_DuplicateKeyRejected ==
    \A t \in Threads :
        /\ (pc[t] \in {"send", "wait", "timedout"} /\ how[t] = "none")
               => (key[t] \in DOMAIN g_waiters /\ g_waiters[key[t]] = t)
        /\ (InFlight(t) /\ how[t] = "erase") => fut[t] # "broken"

Live == {"top", "recv"}     \* listener_loop is executing

\* C11: exactly one listener thread per running engine: whenever is_running()
\* is true and no start() or stop() is under way, the listener thread is
\* alive, the case of a loop that ended on a transport error included.
C11_OneListenerWhileRunning ==
    (g_running /\ lpc = "idle") => lis \in Live

Unavailable == Val(FALSE, "Engine socket not available")
InvalidIP   == Val(FALSE, "Invalid IP")

\* C12: engine not started: a probe() call made while is_running() is false
\* returns at once with a failure that reports the engine as unavailable (or
\* the address as invalid), takes no sequence number, registers nothing and
\* gets to no send, whatever the destination.
C12_NotRunningUnavailable ==
    [][\A t \in Threads, d \in Dests :
          (~g_running /\ ProbeStart(t, d))
              => /\ pc'[t] = "idle"
                 /\ ret'[t] \in {Unavailable, InvalidIP}
                 /\ g_seq' = g_seq
                 /\ g_waiters' = g_waiters]_vars

Owns(t) == \E k \in DOMAIN g_waiters : g_waiters[k] = t

\* C13: invalid address: a probe() call whose destination fails IPv4
\* validation returns {success: false, error: "Invalid IP"} in the same
\* step, whatever the engine's state, with no sequence number taken, no
\* table entry registered, no promise created and no send reached; a call
\* that has returned "Invalid IP" owns no entry and no waiter.
C13_InvalidAddress ==
    /\ [][\A t \in Threads :
             ProbeStart(t, "invalid")
                 => /\ ret'[t] = InvalidIP
                    /\ pc'[t] = "idle"
                    /\ fut'[t] = "none"
                    /\ UNCHANGED << g_waiters, g_seq, key, lifeVars >>]_vars
    /\ [](\A t \in Threads :
             (Returned(t) /\ ret[t] = InvalidIP)
                 => (fut[t] = "none" /\ nset[t] = 0 /\ how[t] = "none" /\ ~Owns(t)))

\* C13 witness: an invalid-address call has returned "Invalid IP" on a
\* running engine while the other caller's probe is registered and waiting.
C13_Witness ==
    \E t, u \in Threads :
        /\ Returned(t) /\ ret[t] = InvalidIP
        /\ g_running /\ lis \in Live
        /\ pc[u] = "wait" /\ key[u] \in DOMAIN g_waiters

\* C14: start() fails, leaving the engine Stopped, whenever the interface
\* hint cannot be resolved to an interface or the capture/socket capability
\* cannot be acquired: no start() on a stopped engine that is given a name no
\* interface has, or that cannot acquire the transport, goes on to run.
C14_UnresolvedHintFails ==
    [][\A i \in Hints \X OpenOutcomes :
          (~g_running /\ InitOpen(i[1], i[2]) /\ (i[1] = "unknown" \/ ~i[2][1]))
              => (~g_running' /\ lpc' = "idle")]_vars

\* A step in which a start() call ends without having started the engine:
\* init_engine returns false, or the thread constructor throws.
FailedStart ==
    \/ \E i \in Hints \X OpenOutcomes :
          ~g_running /\ ~i[2][1] /\ InitOpen(i[1], i[2])
    \/ InitSpawn(FALSE)

\* C15: whenever start() does not succeed the engine is Stopped afterwards:
\* is_running() is false and no listener thread exists when the call ends.
C15_FailedStartLeavesStopped ==
    [][FailedStart => (~g_running' /\ lis' = "none" /\ lpc' = "idle")]_vars

\* C16: a start() that fails before the listener is spawned releases what it
\* had acquired: when the failed call ends the engine holds no capture
\* handle and no socket.
C16_FailedStartReleases ==
    [][FailedStart => (~g_cap' /\ g_sock' = NoSock)]_vars

\* C17: start() is idempotent: a start() call on a running engine returns at
\* its first test; it opens no transport handle, spawns no listener thread,
\* and changes neither the correlation table nor any waiter.
C17_StartIdempotent ==
    [][\A i \in Hints \X OpenOutcomes :
          (g_running /\ InitOpen(i[1], i[2]))
              => UNCHANGED << g_running, g_sock, g_cap, rx_closed, lis, lpc,
                              tableVars >>]_vars

\* C17 witness: a running engine with its listener alive and a waiter
\* registered, no lifecycle call under way: the state a repeated start()
\* is made in and, the call changing nothing, the state it returns in.
C17_Witness ==
    /\ g_running /\ lpc = "idle" /\ lis \in Live
    /\ \E t \in Threads : pc[t] = "wait" /\ key[t] \in DOMAIN g_waiters

\* Stopped: not running, no listener thread, no socket, no capture handle.
StoppedEngine == ~g_running /\ lis = "none" /\ g_sock = NoSock /\ ~g_cap

engineVars == << g_running, g_sock, g_cap, rx_closed, lis >>

\* C18: stop() is idempotent: every step of a stop() call made on a Stopped
\* engine (never started, or already stopped) leaves the engine Stopped and
\* changes nothing of the engine, and its drain of an empty table changes
\* neither the table nor any waiter.
C18_StopIdempotent ==
    /\ [][(StoppedEngine /\ (ShutdownSignal \/ ShutdownJoinClose))
             => (StoppedEngine' /\ UNCHANGED << engineVars, tableVars >>)]_vars
    /\ [][(ShutdownDrain /\ g_waiters = EmptyTable)
             => (StoppedEngine' /\ UNCHANGED << engineVars, tableVars >>)]_vars

\* C18 witness: a second stop() is under way on an engine that was started
\* and has been stopped: it has signalled and found nothing to wake.
C18_Witness ==
    /\ lpc = "join" /\ StoppedEngine /\ rx_closed
    /\ g_waiters = EmptyTable

\* C19: stop() marks the engine Stopped last: while a stop() call is still
\* under way and is_running() is already false, the listener has been
\* joined, the transport closed and no registered waiter is unresolved.
C19_StoppedMarkedLast ==
    (lpc \in {"join", "drain"} /\ ~g_running)
        => /\ lis = "none"
           /\ g_sock = NoSock
           /\ \A k \in DOMAIN g_waiters : fut[g_waiters[k]] # "empty"

\* C20: t_send is read before the send, and rtt_ms is computed by the issuer
\* after the waiter is resolved, as the clock then minus t_send: with a clock
\* that never runs backwards every successful outcome has rtt_ms >= 0, and
\* the listener, which writes its placeholder into the stored result only,
\* never sets the rtt_ms the caller gets.
C20_RttNonNegative ==
    /\ [](\A t \in Threads :
             (Returned(t) /\ ret[t].kind = "value" /\ ret[t].success)
                 => rtt_ms[t] >= 0)
    /\ [][\A t \in Threads :
             /\ (pc[t] = "send" /\ pc'[t] # "send") => t_send'[t] = clock
             /\ (pc[t] = "wait" /\ pc'[t] = "idle" /\ ret'[t].kind = "value")
                    => rtt_ms'[t] = clock - t_send[t]
             /\ (pc[t] = "wait" /\ pc'[t] = "wait") => rtt_ms'[t] = rtt_ms[t]]_vars

\* C20 witness: an engine-path probe has returned the listener's success
\* with a measured rtt_ms that is not the listener's placeholder.
C20_Witness ==
    \E t \in Threads :
        /\ Returned(t) /\ ret[t].success /\ how[t] = "listener"
        /\ rtt_ms[t] > RttPlaceholder

\* C21: every probe() call that reached the waiting state returns Resolved
\* or TimedOut, as a value: whenever a caller leaves the wait on its waiter
\* (ready branch or deadline branch) and is back with its caller, what it
\* hands back is a returned PingProbeResult.
C21_WaitEndsWithOutcome ==
    [][\A t \in Threads :
          (pc[t] \in {"wait", "timedout"} /\ pc'[t] = "idle")
             => ret'[t].kind = "value"]_vars

\* The steps in which thread t's probe ends in InvalidInput, SendFailed or
\* Timeout.
LocalFailure(t) ==
    \/ ProbeStart(t, "invalid")
    \/ ProbeSend(t, FALSE)
    \/ ProbeTimeout(t)

\* C22: per-probe errors are local: a step in which a probe ends in
\* InvalidInput, SendFailed or Timeout leaves the engine state and the
\* transport handle as they were, and leaves every other caller's table
\* entry, shared state and resolution untouched.
C22_ErrorsAreLocal ==
    [][\A t \in Threads :
          LocalFailure(t) =>
             /\ UNCHANGED << g_running, g_sock, g_cap, rx_closed, lis >>
             /\ \A u \in Threads \ {t} :
                   /\ fut'[u] = fut[u]
                   /\ how'[u] = how[u]
                   /\ nset'[u] = nset[u]
                   /\ \A k \in DOMAIN g_waiters :
                         g_waiters[k] = u =>
                            (k \in DOMAIN g_waiters' /\ g_waiters'[k] = u)]_vars

\* C29: stop() signals the listener, joins it, closes the transport and
\* only then drains: shutdown_engine moves signal -> join and close -> drain
\* in that order, while the drain is pending the listener thread is gone
\* and the transport closed, and no step taken then is a listener
\* resolution of a waiter.
C29_StopOrder ==
    /\ [](lpc = "drain" =>
             (~g_running /\ lis = "none" /\ g_sock = NoSock /\ ~g_cap))
    /\ [][/\ lpc' # lpc =>
                << lpc, lpc' >> \in { << "idle", "spawn" >>, << "spawn", "idle" >>,
                                      << "idle", "join" >>, << "join", "drain" >>,
                                      << "drain", "idle" >> }
          /\ (lpc = "join" /\ lpc' = "drain") => lis \in {"none", "exited"}
          /\ lpc = "drain" =>
                \A t \in Threads :
                   /\ how'[t] = "listener" => how[t] = "listener"
                   /\ fut'[t] = "reply" => fut[t] = "reply"]_vars

\* The drain is about to run over a waiter that registered before the
\* stop() and was not resolved by the listener.
C29_Witness ==
    /\ lpc = "drain"
    /\ \E t \in Threads :
          pc[t] = "wait" /\ fut[t] = "empty" /\ key[t] \in DOMAIN g_waiters

\* C25: the Linux engine mirrors the Windows engine: from the same table
\* and the same waiters, the stop() of either build leaves every drained
\* waiter with the same shared state, hence its caller with the same kind
\* of outcome, returned as a value.
C25_BuildsAgreeOnDrain ==
    [][ShutdownDrain =>
          /\ DrainFutOn("linux", fut, Owners(g_waiters, DOMAIN g_waiters))
               = DrainFutOn("win", fut, Owners(g_waiters, DOMAIN g_waiters))
          /\ \A t \in Owners(g_waiters, DOMAIN g_waiters) :
                FutureGet(fut'[t]).kind = "value"]_vars

\* C23: checksum round trip: once checksum16 of a message with a zeroed
\* checksum field has been written into that field, the 16-bit words of
\* the whole message, summed with carry folding, give 0xFFFF, for messages
\* of even and of odd length.
C23_ChecksumRoundTrip ==
    /\ [](cpc = "filled" => Fold(SumWords(packet, 1)) = WordMod - 1)
    /\ [][ChecksumFill =>
             /\ Len(packet') = Len(packet)
             /\ \A i \in 1 .. Len(packet) :
                   i \notin {CsumOff + 1, CsumOff + 2} => packet'[i] = packet[i]
             /\ Word(packet', CsumOff + 1) = checksum16(packet)]_vars

\* A filled message of odd length whose word sum carried out of 16 bits.
C23_Witness ==
    /\ cpc = "filled"
    /\ Len(packet) % 2 = 1
    /\ SumWords(StoreChecksum(packet, 0), 1) >= WordMod

\* C24: the local fast path returns no later than timeout_ms after its
\* send, with error "Timeout" when no matching reply has arrived by then,
\* however many non-matching frames it receives: a call still in its
\* receive loop is never past timeout_ms since the send, and a call that
\* gave up on a receive timeout reports "Timeout".
C24_FastPathDeadline ==
    /\ fast.pc = "recv" => fast.elapsed <= fast.timeout_ms
    /\ (fast.pc = "done" /\ ~fast.success) =>
          (fast.elapsed <= fast.timeout_ms /\ fast.error_msg # "")

\* C26: whenever ping_host reports reachable = true, the aggregated result
\* has rtt_ms >= 0 and ttl > 0.
C26_ReachableHasRttAndTtl ==
    (host.pc = "done" /\ host.reachable) => (host.rtt_ms >= 0 /\ host.ttl > 0)

\* C27: ping_host fails gracefully on an invalid IPv4 string: for every
\* option set the call does not throw, sends nothing, records only probes
\* with success = false and a non-empty error message, one per attempt,
\* and returns reachable = false.
C27_InvalidAddressGraceful ==
    host.ip = "invalid" =>
       /\ host.pc # "thrown"
       /\ host.sent = 0
       /\ ~host.any_ok /\ ~host.reachable
       /\ \A j \in 1 .. Len(host.probes) :
             ~host.probes[j].success /\ host.probes[j].error_msg # ""
       /\ host.pc = "done" => Len(host.probes) = Attempts(host)

\* ping_host returned from a call with an invalid address and retries = 2.
C27_Witness ==
    /\ host.pc = "done"
    /\ host.ip = "invalid"
    /\ Len(host.probes) = 2

C28_ExitCodeTellsReachable ==
    run.pc = "done" =>
       /\ run.rc \in {0, 1}
       /\ run.rc = 0 <=> run.received > 0

\* C31: the engine is Running only through a successful start() and leaves
\* Running only through stop() (or the roll-back of the start() that is
\* failing), and it can be started again: whenever no lifecycle call is
\* under way and is_running() is true a listener thread was created by the
\* start(), and every start() whose thread creation succeeds, the first
\* and any later one, leaves the engine Running with an open transport
\* that is not shut down and one listener at the top of its loop.
C31_LifecycleRestartable ==
    /\ []((lpc = "idle" /\ g_running) => lis # "none")
    /\ [][/\ (~g_running /\ g_running') => (lpc = "idle" /\ lpc' = "spawn")
          /\ (g_running /\ ~g_running') =>
                (lpc \in {"idle", "spawn"} /\ lpc' \in {"join", "idle"})
          /\ (lpc = "spawn" /\ lis' = "top") =>
                (g_running' /\ g_sock' # NoSock /\ ~rx_closed' /\ lis = "none")]_vars

\* The positions of the successful probes in the record of a ping_host call.
Successes(h) == { j \in 1 .. Len(h.probes) : h.probes[j].success }

\* C32: ping_host aggregation: in the result returned, reachable is true
\* exactly when a recorded probe succeeded; when it is, rtt_ms is the least
\* rtt_ms of the successful probes and ttl is the ttl of a probe that has
\* it; when it is not, rtt_ms and ttl are still -1.
C32_Aggregation ==
    host.pc = "done" =>
       /\ host.reachable <=> Successes(host) # {}
       /\ host.reachable =>
             /\ \A j \in Successes(host) : host.rtt_ms <= host.probes[j].rtt_ms
             /\ \E j \in Successes(host) :
                   /\ host.probes[j].rtt_ms = host.rtt_ms
                   /\ host.probes[j].ttl = host.ttl
       /\ ~host.reachable => (host.rtt_ms = RttUnset /\ host.ttl = NoTtl)

\* A call returned after two successful probes of which the second was
\* the slower one.
C32_Witness ==
    /\ host.pc = "done"
    /\ Len(host.probes) = 2
    /\ Successes(host) = {1, 2}
    /\ host.probes[2].rtt_ms > host.probes[1].rtt_ms
    /\ host.probes[2].ttl # host.probes[1].ttl

\* C33: ping_host makes its attempts one after the other: without
\* stop_on_first_success it records exactly max(1, retries) probes; with it,
\* it stops right after the first success, so at most one recorded probe
\* succeeded and that one is the last; in every case it records between 1
\* and max(1, retries) probes.
C33_SequentialAttempts ==
    /\ Len(host.probes) = host.i
    /\ host.pc = "done" =>
          /\ Len(host.probes) \in 1 .. Attempts(host)
          /\ ~host.stop_on_first_success => Len(host.probes) = Attempts(host)
          /\ host.stop_on_first_success =>
                /\ Successes(host) \subseteq {Len(host.probes)}
                /\ Successes(host) = {} => Len(host.probes) = Attempts(host)

\* A call with retries = 2 and stop_on_first_success returned after one
\* probe, which succeeded.
C33_Witness ==
    /\ host.pc = "done"
    /\ host.stop_on_first_success
    /\ Attempts(host) = 2
    /\ Len(host.probes) = 1
    /\ Successes(host) = {1}

\* C34: run_ping in normal mode merges the probes of all its attempts: when
\* the loop is over, the probe list of the accumulated result holds every
\* probe of every attempt made, in order, whichever attempts were reachable.
C34_AllProbesMerged ==
    (run.pc = "done" /\ ~run.continuous) => run.probes = run.attempts

\* C35: a probe's TTL setting affects only that probe: a probe called with
\* ttl <= 0 is sent with the engine's default TTL and a probe called with
\* ttl = t > 0 is sent with TTL t, whatever ttl earlier or concurrent probes
\* on the shared engine socket were called with.
C35_TtlPerProbe ==
    wire.pc = "run" =>
       \A t \in Threads :
          wire.at[t] = "done" =>
             wire.sent_ttl[t] = IF wire.ttl[t] > 0 THEN wire.ttl[t]
                                ELSE DefaultTtl(platform)

\* C36: for every payload_size ping_once_engine accepts, negative ones
\* included, the request buffer is at least 16 bytes long (header and
\* timestamp) and exactly 16 + payload_size bytes long when payload_size >= 0,
\* so that the writes of the header and the timestamp stay inside it.
C36_BufferHoldsHeaderAndStamp ==
    req.pc # "none" =>
       /\ req.pc \notin {"thrown", "crashed"}
       /\ req.pc = "filled" =>
             /\ req.inside
             /\ req.packet >= HeaderLen + StampLen
             /\ req.payload_size >= 0 =>
                   req.packet = HeaderLen + StampLen + req.payload_size

\* C37: table invariant: every entry of g_waiters belongs to one probe()
\* call that has registered and has not returned, and its waiter is still
\* unassigned; so the entries are never more than the probes in flight, and
\* once a probe() call has returned, by whatever path, no entry for its key
\* is left.
C37_TableInvariant ==
    /\ \A k \in DOMAIN g_waiters :
          LET t == g_waiters[k]
          IN  /\ key[t] = k
              /\ pc[t] \in {"send", "wait", "timedout"}
              /\ fut[t] = "empty"
    /\ Cardinality(DOMAIN g_waiters) <= Cardinality({t \in Threads : InFlight(t)})
    /\ \A t \in Threads :
          Returned(t) => \A k \in DOMAIN g_waiters : g_waiters[k] # t

\* C38: a probe to destination D is reported successful only if an Echo
\* Reply that came from D and carries the probe's (id, seq) was received:
\* replies from other hosts make no difference to its outcome.
C38_SuccessOnlyFromDestination ==
    (rx.pc = "done" /\ rx.success) => rx.from = rx.dest

\* C39: when stop() returns the correlation table is empty, and it stays
\* empty until the next successful start(), however the stop() interleaves
\* with probe() calls that were past the socket-available check when it began.
\* (rx_closed with g_running false: the last lifecycle call to act on an open
\* transport was a stop().)
C39_EmptyAfterStop ==
    [][/\ (lpc = "drain" /\ lpc' = "idle") => g_waiters' = EmptyTable
       /\ (lpc = "idle" /\ lpc' = "idle" /\ ~g_running /\ rx_closed
             /\ g_waiters = EmptyTable) => g_waiters' = EmptyTable]_vars

\* C40: concurrent lifecycle calls are safe: when two threads call stop(),
\* or two threads call start(), at the same time, the listener is joined not
\* more than once, the transport is opened and closed not more than once,
\* and the listener handle is never assigned while it is joinable.
C40_ConcurrentLifecycleSafe ==
    life.pc # "none" =>
       /\ life.joins <= 1
       /\ life.opens <= 1
       /\ life.closes <= 1
       /\ ~life.overwritten

====
